---- MODULE Spec2Model ----
(***************************************************************************)
(* rambo - Recipe Analyzer and Multi-package Build Optimizer.              *)
(*                                                                         *)
(* A model of the build-order engine of rambo/meta.py (class MetaSet) as   *)
(* driven by main() of rambo/__main__.py, and of the earlier single-file   *)
(* revision rambo.py (class metaSet and its main()).  The two revisions    *)
(* share the ordering code (index, peer_bdep_indices, position_OK,         *)
(* relocate, optimize_build_order, multipass_optimize) and differ in how   *)
(* the recipes are read, sorted, merged and printed; the variable `entry`  *)
(* says which program runs.                                                *)
(*                                                                         *)
(* Python lists are 0-based, TLA+ sequences 1-based: every index of the    *)
(* model is the Python index plus one.                                     *)
(***************************************************************************)
EXTENDS Integers, Sequences, FiniteSets, TLC

----------------------------------------------------------------------------
(* Bounds of the model *)

\* number of recipe names of the small directories
MaxNames == 3
\* total number of build requirements in one small directory
MaxEdges == 3
\* largest explicit max_passes argument besides the default
MaxPassArg == 2

(* Program constants *)

\* default of the max_passes parameter of multipass_optimize
DefaultMaxPasses == 8

----------------------------------------------------------------------------
(* Names.  Python compares package names as strings; the names of the     *)
(* model are single capital letters, whose string order is their position *)
(* in NameOrder.                                                          *)

NameOrder == <<"A", "B", "C", "D", "E", "F", "G", "H", "I">>

Rank(n) == CHOOSE i \in 1..Len(NameOrder) : NameOrder[i] = n

Names == {NameOrder[i] : i \in 1..MaxNames}

\* A build requirement is the string "name [version-spec]", kept as the
\* list of its whitespace-separated tokens.  Requirements on the packages
\* in PinnedDeps are written with a version specification.
VersionSpec == ">=1.0"

PinnedDeps == {NameOrder[1]}

Req(n) == IF n \in PinnedDeps THEN <<n, VersionSpec>> ELSE <<n>>

\* str.split()[0]
split0(req) == req[1]

----------------------------------------------------------------------------
(* The recipes directory: a set of rendered recipes (mdata), one per      *)
(* sub-directory.  has_build says whether mdata['requirements']['build']  *)
(* exists; build is that list.  has_meta says whether the sub-directory   *)
(* holds a meta.yaml, skip is what MetaData.skip() answers, version and   *)
(* number are mdata['package']['version'] and mdata['build']['number'].   *)
(* conda_build.api.get_output_file_path(s) is not part of rambo; what it  *)
(* does when it is handed None instead of a MetaData is an input:         *)
(* canon_raises says whether it raises.                                   *)

Version == "1.0"

OldVersion == "0.9"

Recipe(n, hb, b) ==
    [dirname |-> n, name |-> n, has_build |-> hb, build |-> b,
     has_meta |-> TRUE, skip |-> FALSE, version |-> Version, number |-> 0,
     canon_raises |-> FALSE]

\* a recipe whose package name differs from the name of its directory
Named(r, n) == [r EXCEPT !.name = n]

\* a sub-directory without meta.yaml
NoMeta(n, cr) ==
    [Recipe(n, FALSE, <<>>) EXCEPT !.name = "None", !.has_meta = FALSE,
                                   !.canon_raises = cr]

\* a recipe the renderer marks as skipped on the selected platform
Skipped(r) == [r EXCEPT !.skip = TRUE]

ReqLists(k) == UNION {[1..m -> {Req(n) : n \in Names}] : m \in 0..k}

RecipeChoices(n, budget) ==
    {{}, {Recipe(n, FALSE, <<>>)}} \cup
    {{Recipe(n, TRUE, b)} : b \in ReqLists(budget)}

Cost(c) == IF c = {} THEN 0 ELSE Len((CHOOSE r \in c : TRUE).build)

RECURSIVE DirsFrom(_, _)
DirsFrom(i, budget) ==
    IF i > MaxNames THEN {{}}
    ELSE UNION {{c \cup rest : rest \in DirsFrom(i + 1, budget - Cost(c))} :
                c \in RecipeChoices(NameOrder[i], budget)}

\* every directory over Names with at most MaxEdges build requirements
SmallDirs == DirsFrom(1, MaxEdges)

\* Deep dependency chains over nine packages: chain[1] has no build
\* requirement, chain[i] requires chain[i-1].
DeepChains ==
    { <<"A", "B", "C", "D", "E", "F", "G", "H", "I">>,
      <<"A", "B", "I", "D", "G", "F", "E", "C", "H">>,
      <<"A", "I", "B", "E", "H", "G", "F", "D", "C">> }

ChainDir(chain) ==
    {Recipe(chain[i], TRUE, IF i = 1 THEN <<>> ELSE <<Req(chain[i - 1])>>) :
        i \in 1..Len(chain)}

DeepDirs == {ChainDir(c) : c \in DeepChains}

\* the recipes of a directory that have an empty build requirement list
Leaves(dir) == {r \in dir : r.has_build /\ r.build = <<>>}

\* the directories made from `d` by marking the recipe of the first
\* sub-directory as skipped, or by taking the meta.yaml out of it
Specials(d) ==
    UNION {{(d \ {r}) \cup {Skipped(r)},
            (d \ {r}) \cup {NoMeta(r.dirname, TRUE)},
            (d \ {r}) \cup {NoMeta(r.dirname, FALSE)}} :
           r \in {q \in Leaves(d) : q.dirname = NameOrder[1]}}

\* the directories made from `d` in which two recipes carry the same
\* package name: one recipe takes the name of another
Dups(d) ==
    {(d \ {r}) \cup {Named(r, q.name)} :
        r \in d, q \in {x \in d : x.has_build}} \ {d}

\* a package name that no directory name equals
OtherName == NameOrder[MaxNames + 1]

\* the directories made from `d` in which the package name of the recipe
\* of the first sub-directory is not the name of the sub-directory
Aliases(d) ==
    {(d \ {r}) \cup {Named(r, OtherName)} :
        r \in {q \in d : q.dirname = NameOrder[1]}}

DirNames(dir) == {r.dirname : r \in dir}

RecipeAt(dir, dn) == CHOOSE r \in dir : r.dirname = dn

----------------------------------------------------------------------------
(* Sorting *)

\* sorted(seq, key=...): Python's stable sort, ascending; keys[i] is the key
\* of seq[i]
sorted(seq, keys) ==
    LET n == Len(seq)
        pos(i) == 1 + Cardinality({j \in 1..n :
                        \/ keys[j] < keys[i]
                        \/ keys[j] = keys[i] /\ j < i})
    IN  [p \in 1..n |-> seq[CHOOSE i \in 1..n : pos(i) = p]]

\* the keys of a list of directory names: the names themselves
dirname_keys(l) == [i \in 1..Len(l) |-> Rank(l[i])]

\* os.listdir: the entries in an arbitrary order.  The model draws the
\* order from the rotations of the ascending and of the descending order
\* (for three entries these are all six orders).
Ascending(S) ==
    [i \in 1..Cardinality(S) |->
        CHOOSE n \in S : Cardinality({m \in S : Rank(m) < Rank(n)}) = i - 1]

Reverse(seq) == [i \in 1..Len(seq) |-> seq[Len(seq) + 1 - i]]

Rotate(seq, k) == [i \in 1..Len(seq) |-> seq[((i + k - 1) % Len(seq)) + 1]]

listdir(dir) ==
    LET asc == Ascending(DirNames(dir))
        last == IF Len(asc) = 0 THEN 0 ELSE Len(asc) - 1
    IN  {Rotate(asc, k) : k \in 0..last} \cup
        {Rotate(Reverse(asc), k) : k \in 0..last}

----------------------------------------------------------------------------
(* The options of a run.  They are attributes of the MetaSet that its     *)
(* methods read: self.manifest, self.channel_data and self.culled.        *)

VARIABLES
    manifest,           \* [given, packages]: the manifest file, if any
    channel_data,       \* [given, packages]: repodata.json of the channel
    culled              \* --culled

NotGiven == [given |-> FALSE, packages |-> {}]

Given(S) == [given |-> TRUE, packages |-> S]

----------------------------------------------------------------------------
(* class Meta *)

\* the file name '{name}-{version}-{build string}{number}.tar.bz2', kept as
\* the tuple of its fields
CanonicalName(n, v, k) == <<n, v, k>>

\* Meta.render_canonical / meta.gen_canonical
canonical_name(r) ==
    IF r.has_meta THEN CanonicalName(r.name, r.version, r.number)
    ELSE <<>>

\* read_recipe_selection: fast_canonical, computed from the template
fast_canonical(r) == CanonicalName(r.name, r.version, r.number)

\* is_archived that looks for the package name alone
is_archived_by_name(cname) ==
    \E c \in channel_data.packages : c[1] = cname[1]

is_archived(cname) == cname \in channel_data.packages

is_complete(r) == r.has_build

\* Meta.__init__, import_metadata and derive_values
Meta(r) ==
    [recipe_dirname |-> r.dirname,
     name       |-> r.name,
     complete   |-> is_complete(r),
     build      |-> r.build,
     num_bdeps  |-> IF is_complete(r) THEN Len(r.build) ELSE 0,
     deps       |-> IF is_complete(r)
                    THEN [k \in 1..Len(r.build) |-> split0(r.build[k])]
                    ELSE <<>>,
     peer_bdeps |-> <<>>,
     active     |-> TRUE,
     archived   |-> FALSE,
     canonical_name |-> canonical_name(r)]

----------------------------------------------------------------------------
(* class MetaSet: construction *)

\* recipe_list that loses the entry enumerated first
recipe_list_skip_first(e, listing) ==
    LET rest == SubSeq(listing, 2, Len(listing))
    IN  sorted(rest, dirname_keys(rest))

\* the order in which read_recipes visits the directory entries
recipe_list(e, listing) ==
    IF e = "package" THEN sorted(listing, dirname_keys(listing)) ELSE listing

\* the lists after `m` was read
appended(acc, m) ==
    IF m.complete
    THEN [acc EXCEPT !.metas = Append(@, m), !.names = Append(@, m.name)]
    ELSE [acc EXCEPT !.incomplete_metas = Append(@, m)]

\* the test that keeps every rendered recipe
kept_always(e, r) == TRUE

\* `if not m.metaobj.skip()`; rambo.py has no such test
kept(e, r) == e = "script" \/ ~r.skip

\* m = Meta(rdir, ...) and what follows it in the loop body.  Without a
\* meta.yaml metaobj stays None: the call of conda-build raises, or
\* m.metaobj.skip() does; rambo.py, which does not call skip(), appends
\* the record with the name None to the incomplete ones.
rendered(e, r, acc) ==
    IF ~r.has_meta
    THEN IF r.canon_raises THEN [acc EXCEPT !.raised = "RenderError"]
         ELSE IF e = "package" THEN [acc EXCEPT !.raised = "AttributeError"]
         ELSE appended(acc, Meta(r))
    ELSE IF kept(e, r) THEN appended(acc, Meta(r)) ELSE acc

\* one iteration of the loop of read_recipe_selection / read_recipes
read_one(e, r, acc) ==
    IF e = "package" /\ culled
    THEN IF ~r.has_meta THEN [acc EXCEPT !.raised = "TemplateNotFound"]
         ELSE IF ~channel_data.given
              THEN [acc EXCEPT !.raised = "AttributeError"]
         ELSE IF is_archived(fast_canonical(r)) THEN acc
         ELSE rendered(e, r, acc)
    ELSE rendered(e, r, acc)

RECURSIVE read_from(_, _, _, _, _)
read_from(e, dir, rl, i, acc) ==
    IF i > Len(rl) \/ acc.raised # "None" THEN acc
    ELSE read_from(e, dir, rl, i + 1, read_one(e, RecipeAt(dir, rl[i]), acc))

\* filter of a listing that keeps every entry
in_manifest_all(e, dn) == TRUE

\* set.intersection(set(recipe_dirnames), set(self.manifest['packages']))
in_manifest(e, dn) ==
    (e = "package" /\ manifest.given) => dn \in manifest.packages

\* the entries of a list that satisfy in_manifest, in the order of the list
RECURSIVE selection(_, _)
selection(e, l) ==
    IF l = <<>> THEN <<>>
    ELSE (IF in_manifest(e, Head(l)) THEN <<Head(l)>> ELSE <<>>)
         \o selection(e, Tail(l))

read_recipes(e, dir, listing) ==
    read_from(e, dir, recipe_list(e, selection(e, listing)), 1,
              [metas |-> <<>>, incomplete_metas |-> <<>>, names |-> <<>>,
               raised |-> "None"])

\* filter_by_manifest that drops the records it should deactivate
filter_by_manifest_drop(ms) ==
    LET keep(i) == ms[i].name \in manifest.packages
        n == Cardinality({i \in 1..Len(ms) : keep(i)})
    IN  [p \in 1..n |->
            ms[CHOOSE i \in 1..Len(ms) :
                    keep(i) /\ Cardinality({j \in 1..i : keep(j)}) = p]]

filter_by_manifest(ms) ==
    [i \in 1..Len(ms) |->
        IF ms[i].name \notin manifest.packages
        THEN [ms[i] EXCEPT !.active = FALSE]
        ELSE ms[i]]

\* flag_archived that looks for the package name alone
flag_archived_by_name(ms) ==
    [i \in 1..Len(ms) |->
        IF is_archived_by_name(ms[i].canonical_name)
        THEN [ms[i] EXCEPT !.archived = TRUE]
        ELSE ms[i]]

flag_archived(ms) ==
    [i \in 1..Len(ms) |->
        IF ms[i].canonical_name \in channel_data.packages
        THEN [ms[i] EXCEPT !.archived = TRUE]
        ELSE ms[i]]

InList(x, seq) == \E i \in 1..Len(seq) : seq[i] = x

RECURSIVE peers_of(_, _)
peers_of(deps, nms) ==
    IF deps = <<>> THEN <<>>
    ELSE (IF InList(Head(deps), nms) THEN <<Head(deps)>> ELSE <<>>)
         \o peers_of(Tail(deps), nms)

calc_peer_bdeps(ms, nms) ==
    [i \in 1..Len(ms) |->
        [ms[i] EXCEPT !.peer_bdeps = @ \o peers_of(ms[i].deps, nms)]]

\* key=lambda meta: meta.name
name_keys(ms) == [i \in 1..Len(ms) |-> Rank(ms[i].name)]

\* key=lambda meta: len(meta.peer_bdeps)
count_keys(ms) == [i \in 1..Len(ms) |-> Len(ms[i].peer_bdeps)]

sort_by_name(ms) == sorted(ms, name_keys(ms))

sort_by_count(ms) == sorted(ms, count_keys(ms))

\* sort_by_peer_bdeps without the sort by name
sort_by_peer_bdeps_count_only(e, ms) == sort_by_count(ms)

sort_by_peer_bdeps(e, ms) ==
    IF e = "package"
    THEN sort_by_count(sort_by_name(ms))
    ELSE sort_by_count(ms)

\* merge_metas that appends the incomplete records instead of prepending
merge_metas_append(e, ms, inc) ==
    IF e = "package" THEN ms \o sort_by_name(inc) ELSE ms \o inc

\* merge that puts the incomplete records behind the first complete one
merge_metas_after_first(e, ms, inc) ==
    IF ms = <<>> THEN inc ELSE <<Head(ms)>> \o inc \o Tail(ms)

merge_metas(e, ms, inc) ==
    IF e = "package" THEN sort_by_name(inc) \o ms ELSE inc \o ms

----------------------------------------------------------------------------
(* class MetaSet: the ordering engine *)

\* IndexError is modelled by the index 0
index(ms, mname) ==
    IF \E i \in 1..Len(ms) : ms[i].name = mname
    THEN CHOOSE i \in 1..Len(ms) :
            /\ ms[i].name = mname
            /\ \A j \in 1..(i - 1) : ms[j].name # mname
    ELSE 0

RECURSIVE indices_from(_, _, _)
indices_from(ms, mname, i) ==
    IF i > Len(ms) THEN <<>>
    ELSE (IF ms[i].name = mname
          THEN [k \in 1..Len(ms[i].peer_bdeps) |-> index(ms, ms[i].peer_bdeps[k])]
          ELSE <<>>)
         \o indices_from(ms, mname, i + 1)

peer_bdep_indices(ms, mname) == indices_from(ms, mname, 1)

\* position_OK with the comparison reversed
position_OK_reversed(ms, mname) ==
    LET ind == peer_bdep_indices(ms, mname)
    IN  \A k \in 1..Len(ind) : ~(ind[k] < index(ms, mname))

\* position_OK that also rejects an equal index
position_OK_ge(ms, mname) ==
    LET ind == peer_bdep_indices(ms, mname)
    IN  \A k \in 1..Len(ind) : ~(ind[k] >= index(ms, mname))

position_OK(ms, mname) ==
    LET ind == peer_bdep_indices(ms, mname)
    IN  \A k \in 1..Len(ind) : ~(ind[k] > index(ms, mname))

max(seq) == CHOOSE x \in {seq[k] : k \in 1..Len(seq)} :
                \A k \in 1..Len(seq) : seq[k] <= x

\* list.insert(pos, x), pos one-based: x becomes the element at pos
insert(seq, pos, x) ==
    LET p == IF pos > Len(seq) + 1 THEN Len(seq) + 1 ELSE pos
    IN  SubSeq(seq, 1, p - 1) \o <<x>> \o SubSeq(seq, p, Len(seq))

\* del seq[pos], pos one-based
delete(seq, pos) == SubSeq(seq, 1, pos - 1) \o SubSeq(seq, pos + 1, Len(seq))

\* relocate that inserts the copy and keeps the original
relocate_keep(ms, mname) ==
    LET new_idx == max(peer_bdep_indices(ms, mname)) + 1
    IN  insert(ms, new_idx, ms[index(ms, mname)])

\* relocate that inserts a record with fresh flags instead of a copy
relocate_fresh(ms, mname) ==
    LET idx     == index(ms, mname)
        new_idx == max(peer_bdep_indices(ms, mname)) + 1
        temp    == [ms[idx] EXCEPT !.active = TRUE, !.archived = FALSE]
    IN  delete(insert(ms, new_idx, temp), idx)

\* relocate that inserts the copy at the index of the largest dependency
relocate_at_max(ms, mname) ==
    LET idx     == index(ms, mname)
        new_idx == max(peer_bdep_indices(ms, mname))
        temp    == ms[idx]
    IN  delete(insert(ms, new_idx, temp), idx)

relocate(ms, mname) ==
    LET idx     == index(ms, mname)
        new_idx == max(peer_bdep_indices(ms, mname)) + 1
        temp    == ms[idx]
    IN  delete(insert(ms, new_idx, temp), idx)

\* relocate that swallows the failure of the lookup
relocate_call_quiet(ms, mname) ==
    IF index(ms, mname) = 0
    THEN [metas |-> ms, raised |-> "None", name |-> "None"]
    ELSE [metas |-> relocate(ms, mname), raised |-> "None", name |-> "None"]

\* a call of relocate: the list it leaves and the exception it raises.
\* The first statement, idx = self.index(mname), raises
\* IndexError('Name [mname] not found.') before the list is touched.
relocate_call(ms, mname) ==
    IF index(ms, mname) = 0
    THEN [metas |-> ms, raised |-> "IndexError", name |-> mname]
    ELSE [metas |-> relocate(ms, mname), raised |-> "None", name |-> "None"]

\* the names other code hands to relocate
LookupNames == {NameOrder[1], NameOrder[MaxNames]}

\* loop body that relocates every record that has peer dependencies
visit_any(ms, i) ==
    IF ms[i].peer_bdeps # <<>> THEN relocate(ms, ms[i].name) ELSE ms

\* the body of the loop of optimize_build_order for the element at `i`
visit(ms, i) ==
    IF ~position_OK(ms, ms[i].name) THEN relocate(ms, ms[i].name) ELSE ms

\* counting loop that leaves out the first record
count_notOK_skip_first(ms) ==
    Cardinality({i \in 2..Len(ms) : ~position_OK(ms, ms[i].name)})

\* the counting loop of multipass_optimize
count_notOK(ms) ==
    Cardinality({i \in 1..Len(ms) : ~position_OK(ms, ms[i].name)})

\* loop condition without the limit on the number of passes
loop_cond_no_limit(n, op, mp) == n > 0

\* loop condition that stops one pass early
loop_cond_one_short(n, op, mp) == n > 0 /\ op < mp - 1

\* the loop condition of multipass_optimize
loop_cond(n, op, mp) == n > 0 /\ op < mp

\* the two return statements exchanged
return_value_swapped(op, mp) == IF op = mp THEN "True" ELSE "False"

\* the value multipass_optimize returns
return_value(op, mp) == IF op = mp THEN "False" ELSE "True"

MaxPassesChoices == (1..MaxPassArg) \cup {DefaultMaxPasses}

\* optimize_build_order as a function of the list: the list after the pass
\* and the number of calls of relocate
RECURSIVE optimize_from(_, _)
optimize_from(st, i) ==
    IF i > Len(st.metas) THEN st
    ELSE optimize_from(
            [metas  |-> visit(st.metas, i),
             nreloc |-> IF position_OK(st.metas, st.metas[i].name)
                        THEN st.nreloc ELSE st.nreloc + 1],
            i + 1)

optimize_build_order(ms) == optimize_from([metas |-> ms, nreloc |-> 0], 1)

\* multipass_optimize as a function of the list: the list it leaves and
\* the value it returns
RECURSIVE multipass_from(_, _, _, _)
multipass_from(ms, op, n, mp) ==
    IF loop_cond(n, op, mp)
    THEN LET ms2 == optimize_build_order(ms).metas
         IN  multipass_from(ms2, op + 1, count_notOK(ms2), mp)
    ELSE [metas |-> ms, ret |-> return_value(op, mp)]

multipass_optimize(ms, mp) == multipass_from(ms, 0, 1, mp)

\* MetaSet.__init__: `if self.manfile: self.filter_by_manifest()`
filtered(e, ms) ==
    IF e = "package" /\ manifest.given THEN filter_by_manifest(ms) ELSE ms

\* MetaSet.__init__: `if self.channel: self.flag_archived()`
flagged(ms) == IF channel_data.given THEN flag_archived(ms) ELSE ms

\* MetaSet.__init__ up to and including sort_by_peer_bdeps
sorted_metas(e, dir, listing) ==
    LET r == read_recipes(e, dir, listing)
    IN  sort_by_peer_bdeps(e, calc_peer_bdeps(filtered(e, r.metas), r.names))

\* MetaSet.__init__: the list of the constructed object
MetaSet(e, dir, listing) ==
    flagged(merge_metas(e, sorted_metas(e, dir, listing),
                        read_recipes(e, dir, listing).incomplete_metas))

\* MetaSet.print / metaSet.print: the lines printed
print(ms) == [i \in 1..Len(ms) |-> ms[i].name]

\* the records that pass the test of print_culled, in the order of the list
RECURSIVE culled_from(_, _, _)
culled_from(e, ms, i) ==
    IF i > Len(ms) THEN <<>>
    ELSE (IF (e = "script" \/ ms[i].active) /\ ~ms[i].archived
          THEN <<ms[i].name>> ELSE <<>>)
         \o culled_from(e, ms, i + 1)

\* print_culled that looks at the archived flag alone
print_culled_archived_only(e, ms) == culled_from("script", ms, 1)

\* MetaSet.print_culled / metaSet.print_culled: the lines printed
print_culled(e, ms) == culled_from(e, ms, 1)

----------------------------------------------------------------------------
(* State *)

VARIABLES
    entry,              \* "package": rambo/__main__.py, "script": rambo.py
    directory,          \* the recipes directory
    pc,                 \* position of the run
    metas,              \* MetaSet.metas
    incomplete_metas,   \* MetaSet.incomplete_metas
    names,              \* MetaSet.names
    max_passes,         \* multipass_optimize: max_passes
    opass,              \* multipass_optimize: opass
    num_notOK,          \* multipass_optimize: num_notOK
    it,                 \* optimize_build_order: position of the list iterator
    ret,                \* value returned by multipass_optimize
    pass_start,         \* history: metas when the current pass began
    nreloc,             \* history: calls of relocate in the current pass
    tested,             \* history: names position_OK tested in the pass
    output,             \* the package list main printed
    raised,             \* the exception that ended the run, or "None"
    err_name,           \* the name the message of the exception gives
    called,             \* argument of a call of relocate by other code
    exit_status         \* completion status of the process, -1 while running

vars == <<entry, directory, manifest, channel_data, culled, pc, metas,
          incomplete_metas, names, max_passes, opass, num_notOK, it, ret,
          pass_start, nreloc, tested, output, raised, err_name, called,
          exit_status>>

\* the state before MetaSet is constructed
InitRun ==
    /\ pc = "start"
    /\ metas = <<>>
    /\ incomplete_metas = <<>>
    /\ names = <<>>
    /\ max_passes = 0
    /\ opass = 0
    /\ num_notOK = 0
    /\ it = 0
    /\ ret = "None"
    /\ pass_start = <<>>
    /\ nreloc = 0
    /\ tested = {}
    /\ output = <<>>
    /\ raised = "None"
    /\ err_name = "None"
    /\ called = "None"
    /\ exit_status = -1

\* a run without manifest, channel and --culled
InitFor(e) ==
    /\ entry = e
    /\ \E d \in SmallDirs \cup DeepDirs : directory \in {d} \cup Specials(d)
    /\ manifest = NotGiven
    /\ channel_data = NotGiven
    /\ culled = FALSE
    /\ InitRun

Init == InitFor("package")

InitScript == InitFor("script")

\* a run of rambo/__main__.py on a directory with a duplicate package name
InitDup ==
    /\ entry = "package"
    /\ \E d \in DirsFrom(1, MaxEdges - 1) : directory \in Dups(d)
    /\ manifest = NotGiven
    /\ channel_data = NotGiven
    /\ culled = FALSE
    /\ InitRun

\* the package lists of the manifests
ManifestChoices == {Names, {NameOrder[1], NameOrder[2]}}

\* the contents of the channel: the package of the second recipe and an
\* older version of the package of the first recipe
Archive ==
    {CanonicalName(NameOrder[2], Version, 0),
     CanonicalName(NameOrder[1], OldVersion, 0)}

\* a run with options: rambo/__main__.py with --manifest (the manifest
\* names the channel) and possibly --culled, or rambo.py with or without
\* --channel and --culled
InitOptions ==
    /\ \E d \in DirsFrom(1, MaxEdges - 1) :
         \/ /\ entry = "package"
            /\ directory \in {d} \cup Aliases(d)
            /\ manifest \in {Given(S) : S \in ManifestChoices}
            /\ channel_data = Given(Archive)
         \/ /\ entry = "script"
            /\ directory = d
            /\ manifest = NotGiven
            /\ channel_data \in {NotGiven, Given(Archive)}
    /\ culled \in BOOLEAN
    /\ InitRun

----------------------------------------------------------------------------
(* Actions *)

\* MetaSet.__init__: self.read_recipes(directory) and, with a manifest,
\* self.filter_by_manifest().  An exception raised while the recipes are
\* read ends the run.
ReadRecipes ==
    /\ pc = "start"
    /\ \E listing \in listdir(directory) :
         LET r == read_recipes(entry, directory, listing)
         IN  /\ metas' = IF r.raised = "None" THEN filtered(entry, r.metas)
                         ELSE r.metas
             /\ incomplete_metas' = r.incomplete_metas
             /\ names' = r.names
             /\ raised' = r.raised
             /\ pc' = IF r.raised = "None" THEN "derive" ELSE "aborted"
             /\ exit_status' = IF r.raised = "None" THEN exit_status ELSE 1
    /\ UNCHANGED <<entry, directory, manifest, channel_data, culled, tested, called,
                   err_name,
                   max_passes, opass, num_notOK, it, ret, pass_start, nreloc,
                   output>>

\* MetaSet.__init__: self.derive_values()
DeriveValues ==
    /\ pc = "derive"
    /\ metas' = calc_peer_bdeps(metas, names)
    /\ pc' = "sort"
    /\ UNCHANGED <<entry, directory, manifest, channel_data, culled, tested, called,
                   err_name,
                   incomplete_metas, names, max_passes,
                   opass, num_notOK, it, ret, pass_start, nreloc, output,
                   raised, exit_status>>

\* MetaSet.__init__: self.sort_by_peer_bdeps()
SortByPeerBdeps ==
    /\ pc = "sort"
    /\ metas' = sort_by_peer_bdeps(entry, metas)
    /\ pc' = "merge"
    /\ UNCHANGED <<entry, directory, manifest, channel_data, culled, tested, called,
                   err_name,
                   incomplete_metas, names, max_passes,
                   opass, num_notOK, it, ret, pass_start, nreloc, output,
                   raised, exit_status>>

\* MetaSet.__init__: self.merge_metas() and, with a channel,
\* self.flag_archived()
MergeMetas ==
    /\ pc = "merge"
    /\ metas' = flagged(merge_metas(entry, metas, incomplete_metas))
    /\ incomplete_metas' =
          IF entry = "package" THEN sort_by_name(incomplete_metas)
          ELSE incomplete_metas
    /\ pc' = "constructed"
    /\ UNCHANGED <<entry, directory, manifest, channel_data, culled, tested, called,
                   err_name,
                   names, max_passes, opass, num_notOK, it,
                   ret, pass_start, nreloc, output, raised, exit_status>>

\* multipass_optimize(max_passes): entry of the function.  main() calls it
\* with the default; other values are calls of the method by other code.
MultipassBegin ==
    /\ pc = "constructed"
    /\ \E mp \in MaxPassesChoices : max_passes' = mp
    /\ opass' = 0
    /\ num_notOK' = 1
    /\ pc' = "while"
    /\ UNCHANGED <<entry, directory, manifest, channel_data, culled, tested, called,
                   err_name,
                   metas, incomplete_metas, names, it, ret,
                   pass_start, nreloc, output, raised, exit_status>>

\* the while condition holds: a pass begins
PassBegin ==
    /\ pc = "while"
    /\ loop_cond(num_notOK, opass, max_passes)
    /\ opass' = opass + 1
    /\ num_notOK' = 0
    /\ it' = 1
    /\ pass_start' = metas
    /\ nreloc' = 0
    /\ tested' = {}
    /\ pc' = "for"
    /\ UNCHANGED <<entry, directory, manifest, channel_data, culled, called,
                   err_name,
                   metas, incomplete_metas, names,
                   max_passes, ret, output, raised, exit_status>>

\* optimize_build_order: one iteration of `for m in self.metas`
OptimizeStep ==
    /\ pc = "for"
    /\ it <= Len(metas)
    /\ metas' = visit(metas, it)
    /\ nreloc' = IF position_OK(metas, metas[it].name) THEN nreloc ELSE nreloc + 1
    /\ it' = it + 1
    /\ tested' = tested \cup {metas[it].name}
    /\ UNCHANGED <<entry, directory, manifest, channel_data, culled, called,
                   err_name,
                   pc, incomplete_metas, names, max_passes,
                   opass, num_notOK, ret, pass_start, output, raised,
                   exit_status>>

\* the iterator is exhausted; multipass_optimize counts the violations
CountNotOK ==
    /\ pc = "for"
    /\ it > Len(metas)
    /\ num_notOK' = count_notOK(metas)
    /\ pc' = "while"
    /\ UNCHANGED <<entry, directory, manifest, channel_data, culled, tested, called,
                   err_name,
                   metas, incomplete_metas, names,
                   max_passes, opass, it, ret, pass_start, nreloc, output,
                   raised, exit_status>>

\* the while condition fails: multipass_optimize returns
MultipassReturn ==
    /\ pc = "while"
    /\ ~loop_cond(num_notOK, opass, max_passes)
    /\ ret' = return_value(opass, max_passes)
    /\ pc' = "returned"
    /\ UNCHANGED <<entry, directory, manifest, channel_data, culled, tested, called,
                   err_name,
                   metas, incomplete_metas, names,
                   max_passes, opass, num_notOK, it, pass_start, nreloc,
                   output, raised, exit_status>>

\* other code that used multipass_optimize calls mset.relocate(mname), for
\* a name that is not in the list or for a record that does not have
\* position_OK
RelocateCall ==
    /\ pc = "returned"
    /\ max_passes # DefaultMaxPasses
    /\ \E mname \in LookupNames :
         /\ ~InList(mname, print(metas)) \/ ~position_OK(metas, mname)
         /\ called' = mname
         /\ metas' = relocate_call(metas, mname).metas
         /\ raised' = relocate_call(metas, mname).raised
         /\ err_name' = relocate_call(metas, mname).name
    /\ pc' = "called"
    /\ UNCHANGED <<entry, directory, manifest, channel_data, culled, tested,
                   incomplete_metas, names, max_passes, opass, num_notOK, it,
                   ret, pass_start, nreloc, output, exit_status>>

\* what main() does after mset.multipass_optimize(): the value returned is
\* dropped and the list is printed, with --culled by print_culled.
\* MetaSet.print and MetaSet.print_culled of rambo/meta.py take no file
\* argument, so mset.print(fh) and mset.print_culled(fh) raise TypeError;
\* the methods of rambo.py take it, and main returns normally.
main_exit(e, r) == IF e = "package" THEN 1 ELSE 0

MainOutput ==
    /\ pc = "returned"
    /\ max_passes = DefaultMaxPasses
    /\ output' = IF entry = "package" THEN <<>>
                 ELSE IF culled THEN print_culled(entry, metas)
                 ELSE print(metas)
    /\ raised' = IF entry = "package" THEN "TypeError" ELSE "None"
    /\ exit_status' = main_exit(entry, ret)
    /\ pc' = "done"
    /\ UNCHANGED <<entry, directory, manifest, channel_data, culled, tested, called,
                   err_name,
                   metas, incomplete_metas, names,
                   max_passes, opass, num_notOK, it, ret, pass_start, nreloc>>

Next ==
    \/ ReadRecipes
    \/ DeriveValues
    \/ SortByPeerBdeps
    \/ MergeMetas
    \/ MultipassBegin
    \/ PassBegin
    \/ OptimizeStep
    \/ CountNotOK
    \/ MultipassReturn
    \/ RelocateCall
    \/ MainOutput

Spec == Init /\ [][Next]_vars

SpecScript == InitScript /\ [][Next]_vars

SpecDup == InitDup /\ [][Next]_vars

SpecOptions == InitOptions /\ [][Next]_vars

----------------------------------------------------------------------------
(* Vocabulary of the properties *)

NamesOf(ms) == [i \in 1..Len(ms) |-> ms[i].name]

\* the peer-dependency graph: an edge from a record to each peer dependency
PeerEdges(ms) ==
    UNION {{<<ms[i].name, ms[i].peer_bdeps[k]>> : k \in 1..Len(ms[i].peer_bdeps)} :
            i \in 1..Len(ms)}

Succ(E, S) == {e[2] : e \in {f \in E : f[1] \in S}}

RECURSIVE ReachFrom(_, _)
ReachFrom(E, S) ==
    LET S2 == S \cup Succ(E, S)
    IN  IF S2 = S THEN S ELSE ReachFrom(E, S2)

\* b is reached from a along one or more edges
Reaches(E, a, b) == b \in ReachFrom(E, Succ(E, {a}))

Acyclic(ms) ==
    \A i \in 1..Len(ms) : ~Reaches(PeerEdges(ms), ms[i].name, ms[i].name)

\* a cycle through two or more distinct complete records
HasCycle2(ms) ==
    \E i, j \in 1..Len(ms) :
        /\ ms[i].name # ms[j].name
        /\ ms[i].complete /\ ms[j].complete
        /\ Reaches(PeerEdges(ms), ms[i].name, ms[j].name)
        /\ Reaches(PeerEdges(ms), ms[j].name, ms[i].name)

\* position of the record named n (names are unique in every directory)
PosOf(ms, n) == CHOOSE i \in 1..Len(ms) : ms[i].name = n

\* the precedence invariant: every peer dependency strictly before
Precedence(ms) ==
    \A i \in 1..Len(ms) :
        ms[i].complete =>
            \A k \in 1..Len(ms[i].peer_bdeps) :
                PosOf(ms, ms[i].peer_bdeps[k]) < i

\* in order: no record has a peer dependency at a greater index
InOrder(ms) ==
    \A i \in 1..Len(ms) :
        \A k \in 1..Len(ms[i].peer_bdeps) :
            ~(PosOf(ms, ms[i].peer_bdeps[k]) > i)

\* the records failing the in-order test
Violators(ms) ==
    {i \in 1..Len(ms) :
        \E k \in 1..Len(ms[i].peer_bdeps) : PosOf(ms, ms[i].peer_bdeps[k]) > i}

Constructed == pc \in {"constructed", "while", "for", "returned", "done"}

Returned == pc \in {"returned", "done"}

\* number of occurrences of x in seq
Count(seq, x) == Cardinality({i \in 1..Len(seq) : seq[i] = x})

\* b holds the records of a, each as often as a does
SameRecords(a, b) ==
    /\ Len(a) = Len(b)
    /\ \A i \in 1..Len(a) : Count(a, a[i]) = Count(b, a[i])

UniqueNames(ms) ==
    \A i, j \in 1..Len(ms) : ms[i].name = ms[j].name => i = j

\* the list with every record active
AllActive(ms) == [i \in 1..Len(ms) |-> [ms[i] EXCEPT !.active = TRUE]]

\* MetaSet.__init__ without the call of filter_by_manifest
Unfiltered(e, dir, listing) ==
    LET r == read_recipes(e, dir, listing)
    IN  flagged(merge_metas(e,
            sort_by_peer_bdeps(e, calc_peer_bdeps(r.metas, r.names)),
            r.incomplete_metas))

\* the positions of the records that are active and not archived
Eligible(ms) == {i \in 1..Len(ms) : ms[i].active /\ ~ms[i].archived}

\* out lists the names of the eligible records of ms, each once, in the
\* order of ms
IsCulledOf(out, ms) ==
    /\ Len(out) = Cardinality(Eligible(ms))
    /\ \A k \in 1..Len(out) :
          \E i \in Eligible(ms) :
              /\ Cardinality({j \in Eligible(ms) : j < i}) = k - 1
              /\ out[k] = ms[i].name

\* the scenario directories of the specification
DirAB == {Recipe("A", TRUE, <<Req("B")>>), Recipe("B", TRUE, <<Req("A")>>)}

DirABC == {Recipe("A", TRUE, <<>>), Recipe("B", TRUE, <<Req("A")>>),
           Recipe("C", TRUE, <<Req("B")>>)}

----------------------------------------------------------------------------
(* Properties *)

\* C1: for every working set whose peer-dependency graph is acyclic, the
\* sequence left by multipass_optimize() with the default max_passes
\* satisfies the precedence invariant: every peer dependency of a complete
\* record sits at a smaller index than the record.
C1_AcyclicEndsInPrecedence ==
    (Returned /\ max_passes = DefaultMaxPasses /\ Acyclic(metas))
        => Precedence(metas)

\* C2: whenever multipass_optimize(max_passes), max_passes >= 1, returns
\* True, the sequence it leaves is in order: no record has a peer
\* dependency at a greater index than its own.
C2_TrueMeansInOrder ==
    (Returned /\ max_passes >= 1 /\ ret = "True") => InOrder(metas)

C2_Witness ==
    /\ pc = "returned" /\ ret = "True" /\ opass >= 2
    /\ metas # pass_start \/ opass > 2
    /\ \E i \in 1..Len(metas) : metas[i].peer_bdeps # <<>>

\* C3: multipass_optimize returns False only when violations remain after
\* the maximum pass count: when the last executed pass ends with no record
\* failing position_OK the call returns True, also when that pass is pass
\* number max_passes.
C3_CleanLastPassReturnsTrue ==
    (Returned /\ opass >= 1 /\ Violators(metas) = {}) => ret = "True"

\* C4: when the peer dependencies contain a cycle through two or more
\* distinct complete records, multipass_optimize(max_passes) executes
\* exactly max_passes passes, the number of records failing position_OK is
\* non-zero after every pass, and the call returns False.
C4_CycleExhaustsPasses ==
    (Constructed /\ HasCycle2(metas)) =>
        /\ (pc = "while" /\ opass >= 1) => (num_notOK > 0 /\ Violators(metas) # {})
        /\ Returned => (opass = max_passes /\ ret = "False")

C4_Witness ==
    /\ pc = "returned" /\ HasCycle2(metas)
    /\ max_passes = DefaultMaxPasses /\ opass = DefaultMaxPasses
    /\ ret = "False"

\* C5 as stated: for the working set A{deps:[B]}, B{deps:[A]}, after the 8
\* passes of multipass_optimize() the engine returns failure and exactly 2
\* records fail position_OK.
C5_TwoViolators ==
    (Returned /\ directory = DirAB /\ max_passes = DefaultMaxPasses) =>
        /\ opass = DefaultMaxPasses
        /\ ret = "False"
        /\ count_notOK(metas) = 2

\* C5 amended: for the working set A{deps:[B]}, B{deps:[A]}, after the 8
\* passes of multipass_optimize() the engine returns failure and exactly 1
\* record fails position_OK (the one at the front, whose dependency is
\* behind it; the dependency of the record at the back is in front of it).
C5_OneViolator ==
    (Returned /\ directory = DirAB /\ max_passes = DefaultMaxPasses) =>
        /\ opass = DefaultMaxPasses
        /\ ret = "False"
        /\ num_notOK = 1
        /\ count_notOK(metas) = 1
        /\ Violators(metas) = {1}

C5_Witness ==
    /\ pc = "returned" /\ directory = DirAB
    /\ max_passes = DefaultMaxPasses /\ opass = DefaultMaxPasses

\* C6: for A{deps:[]}, B{deps:[A]}, C{deps:[B]}, read in the order [C,B,A]
\* or in any other order, initial sorting followed by multipass_optimize()
\* yields the sequence [A,B,C] and returns True.
C6_ChainABC ==
    (Returned /\ directory = DirABC /\ max_passes = DefaultMaxPasses) =>
        (NamesOf(metas) = <<"A", "B", "C">> /\ ret = "True")

C6_Witness ==
    /\ pc = "returned" /\ directory = DirABC
    /\ max_passes = DefaultMaxPasses /\ opass >= 1

\* C7: determinism: for a fixed set of records with unique names and fixed
\* build-dependency lists, runs that enumerate the recipe directories in
\* different orders produce the same sequence after the initial sorting,
\* the same constructed sequence, and the same sequence and return value
\* after multipass_optimize.
C7_Determinism ==
    /\ pc = "merge" =>
          \A l \in listdir(directory) :
              sorted_metas(entry, directory, l) = metas
    /\ pc = "constructed" =>
          \A l \in listdir(directory) :
              MetaSet(entry, directory, l) = metas
    /\ pc = "returned" =>
          \A l \in listdir(directory) :
              multipass_optimize(MetaSet(entry, directory, l), max_passes)
                  = [metas |-> metas, ret |-> ret]

C7_Witness ==
    /\ pc = "returned" /\ opass >= 2
    /\ Cardinality(listdir(directory)) > 2
    /\ \E i \in 1..Len(metas) : ~metas[i].complete

\* C8: idempotence: when every record of the sequence is in order, one
\* further pass (optimize_build_order) performs no relocation and leaves
\* the sequence unchanged.
C8_Idempotence ==
    /\ (pc = "for" /\ InOrder(pass_start)) =>
          (nreloc = 0 /\ metas = pass_start)
    /\ (Constructed /\ InOrder(metas)) =>
          optimize_build_order(metas) = [metas |-> metas, nreloc |-> 0]

C8_Witness ==
    /\ pc = "for" /\ it > Len(metas)
    /\ InOrder(pass_start)
    /\ \E i \in 1..Len(metas) :
          metas[i].peer_bdeps # <<>> /\ metas[i].peer_bdeps # <<metas[i].name>>

\* C9: incomplete-front invariant: after merge_metas and after any number
\* of passes, the incomplete records occupy a prefix of the sequence ahead
\* of every complete record, sorted alphabetically by name; they are never
\* relocated, so that prefix is the same in every later state.
C9_IncompleteFront ==
    Constructed =>
        LET k == Len(incomplete_metas)
        IN  /\ k <= Len(metas)
            /\ \A i \in 1..Len(metas) : metas[i].complete <=> (i > k)
            /\ \A i \in 1..(k - 1) : Rank(metas[i].name) < Rank(metas[i + 1].name)
            /\ {metas[i].name : i \in 1..k}
                  = {r.name : r \in {q \in directory : ~q.has_build}}

C9_Witness ==
    /\ pc = "for" /\ nreloc > 0
    /\ \E i \in 1..Len(metas) : ~metas[i].complete

\* C10: when multipass_optimize reports failure, the command-line run ends
\* with a non-zero completion status.
C10_FailureExitsNonZero ==
    (pc = "done" /\ ret = "False") => exit_status # 0

\* C11: for working sets with unique names, in every state reached by
\* relocations and passes, also of a run that ends with False for a cycle,
\* the sequence is a permutation of the constructed records (flags
\* included): every name occurs exactly once, the length is unchanged, no
\* exception has been raised, and the sequence stays in self.metas for the
\* caller.
C11_Permutation ==
    (pc \in {"while", "for", "returned"} /\ UniqueNames(pass_start)) =>
        /\ \E l \in listdir(directory) :
              SameRecords(MetaSet(entry, directory, l), metas)
        /\ UniqueNames(metas)
        /\ raised = "None"

C11_Witness ==
    /\ pc = "returned" /\ ret = "False" /\ HasCycle2(metas)
    /\ opass = DefaultMaxPasses
    /\ metas # pass_start
    /\ \E l \in listdir(directory) :
          SameRecords(MetaSet(entry, directory, l), metas)
    /\ \E i \in 1..Len(metas) : ~metas[i].complete

\* C12: when two records of the working set carry the same name, a fatal
\* input-validation error is raised before the ordering passes begin: no
\* pass and no relocation runs on a working set with duplicate names.
C12_DuplicatesRejected ==
    (\E r, q \in directory : r # q /\ r.name = q.name) =>
        /\ pc \notin {"for", "returned", "done"}
        /\ opass = 0
        /\ nreloc = 0

\* every lookup the ordering code performs on the list resolves
Resolves(ms) ==
    \A i \in 1..Len(ms) :
        /\ index(ms, ms[i].name) # 0
        /\ \A k \in 1..Len(ms[i].peer_bdeps) : index(ms, ms[i].peer_bdeps[k]) # 0

\* C13: a lookup of a name that is not in the sequence (index(name), the
\* first statement of relocate(name)) raises an error that names the
\* missing name and leaves the sequence unchanged; while multipass_optimize
\* runs on a working set with unique names every lookup of a record and of
\* a peer dependency resolves and no such error is raised.
C13_UnknownNameFailsFast ==
    [][ /\ (pc' = "called" /\ pc = "returned"
             /\ ~InList(called', print(metas))) =>
               /\ raised' = "IndexError"
               /\ err_name' = called'
               /\ metas' = metas
        /\ (pc' \in {"while", "for", "returned"} /\ UniqueNames(metas')) =>
               (Resolves(metas') /\ raised' = "None") ]_vars

C13_Witness ==
    /\ pc = "called" /\ raised = "IndexError" /\ err_name = called
    /\ ~InList(called, print(metas))
    /\ opass >= 1 /\ metas # pass_start

\* C14: a candidate directory without meta.yaml is skipped and never
\* becomes a record (it is neither among the complete nor among the
\* incomplete records nor in the sequence), and the run continues with the
\* remaining candidates.
C14_NoMetaSkipped ==
    \A r \in directory :
        (~r.has_meta /\ pc # "start") =>
            /\ pc # "aborted" /\ raised = "None"
            /\ \A i \in 1..Len(metas) : metas[i].recipe_dirname # r.dirname
            /\ \A i \in 1..Len(incomplete_metas) :
                    incomplete_metas[i].recipe_dirname # r.dirname

\* C15: a recipe whose renderer skip flag is set is excluded entirely from
\* the working set: it is neither among the complete nor among the
\* incomplete records, its name is not in the name list from which the
\* peer dependencies are computed (so it is nobody's peer dependency), and
\* it is in no list that is printed.
C15_SkippedExcluded ==
    \A r \in directory :
        r.skip =>
            /\ \A i \in 1..Len(metas) : metas[i].recipe_dirname # r.dirname
            /\ \A i \in 1..Len(incomplete_metas) :
                    incomplete_metas[i].recipe_dirname # r.dirname
            /\ ~InList(r.name, names)
            /\ \A i \in 1..Len(metas) : ~InList(r.name, metas[i].peer_bdeps)
            /\ ~InList(r.name, print(metas))
            /\ ~InList(r.name, print_culled(entry, metas))
            /\ ~InList(r.name, output)

C15_Witness ==
    /\ pc = "returned" /\ opass >= 1
    /\ \E r \in directory :
          /\ r.skip
          /\ \E i \in 1..Len(metas) :
                InList(r.name, metas[i].deps) /\ metas[i].peer_bdeps # <<>>

\* C16: when a manifest is supplied, after the construction of the MetaSet
\* every record of the sequence, complete or incomplete, whose package
\* name is not in the package list of the manifest has active = False, and
\* every record whose name is in it has active = True.
C16_ActiveIffInManifest ==
    (Constructed /\ manifest.given) =>
        \A i \in 1..Len(metas) :
            metas[i].active <=> (metas[i].name \in manifest.packages)
\* C17: filter_by_manifest changes only the active flags: it removes no
\* record, changes no other field of a record (so no peer dependency), and
\* the sequence after the initial sort and the sequence and value after
\* multipass_optimize are the ones obtained with every record active.
C17_FilterOnlyFlags ==
    manifest.given =>
        LET l == CHOOSE x \in listdir(directory) : TRUE
            r == read_recipes(entry, directory, l).metas
            u == Unfiltered(entry, directory, l)
        IN  /\ pc = "derive" =>
                  /\ Len(metas) = Len(r)
                  /\ \A i \in 1..Len(r) :
                        [metas[i] EXCEPT !.active = r[i].active] = r[i]
            /\ pc = "constructed" => AllActive(metas) = u
            /\ pc = "returned" =>
                  multipass_optimize(u, max_passes) =
                      [metas |-> AllActive(metas), ret |-> ret]

C17_Witness ==
    /\ pc = "returned" /\ manifest.given /\ opass >= 2
    /\ metas # pass_start
    /\ \E i \in 1..Len(metas) : ~metas[i].active
    /\ \E i \in 1..Len(metas) : metas[i].active

\* C18: when the manifest restricts the working set to {A, B} and the
\* recipes directory also contains C, C is excluded before ordering runs:
\* at no point of the run is C in the sequence, in the incomplete records
\* or in the name list, and C is the peer dependency of no record.  The
\* same holds of every sub-directory the manifest does not list.
C18_ManifestExcludes ==
    manifest.given =>
        /\ \A r \in directory :
              r.dirname \notin manifest.packages =>
                /\ \A i \in 1..Len(metas) :
                      metas[i].recipe_dirname # r.dirname
                /\ \A i \in 1..Len(incomplete_metas) :
                      incomplete_metas[i].recipe_dirname # r.dirname
        /\ (manifest.packages = {"A", "B"} /\ "C" \in DirNames(directory)) =>
              /\ ~InList("C", print(metas))
              /\ ~InList("C", print(incomplete_metas))
              /\ ~InList("C", names)
              /\ \A i \in 1..Len(metas) : ~InList("C", metas[i].peer_bdeps)

C18_Witness ==
    /\ pc = "returned" /\ opass >= 1
    /\ manifest = Given({"A", "B"})
    /\ "C" \in DirNames(directory)
    /\ Len(metas) = 2
    /\ \E i \in 1..Len(metas) :
          InList("C", metas[i].deps) /\ metas[i].peer_bdeps # <<>>

\* C19: the culled output is the final ordered sequence filtered to the
\* records that are active and not archived: a subsequence of the full
\* output in the same relative order that contains every active
\* non-archived record and no inactive or archived record.  This holds of
\* what print_culled prints for the sequence multipass_optimize left, and
\* of the output of a run of rambo.py with --culled.
C19_CulledOutput ==
    /\ Returned => IsCulledOf(print_culled(entry, metas), metas)
    /\ (pc = "done" /\ culled /\ raised = "None") => IsCulledOf(output, metas)

C19_Witness ==
    /\ pc = "returned" /\ entry = "package" /\ opass >= 1
    /\ \E i \in 1..Len(metas) : ~metas[i].active /\ ~metas[i].archived
    /\ \E i \in 1..Len(metas) : metas[i].archived /\ metas[i].active
    /\ print_culled(entry, metas) # <<>>

\* the recipes of the directory that the manifest, if any, lets in
Listed(dir) == {r \in dir : manifest.given => r.dirname \in manifest.packages}

\* C20: archive culling only flags records, in every mode of operation,
\* the culled mode included: a record has archived = True iff its
\* canonical name is in the archive index, and the record of a recipe
\* whose canonical name is in the archive stays in the sequence; for A,
\* B (requires A), C (requires B) with the canonical name of B in the
\* archive the full ordered sequence is [A, B, C] and the culled output is
\* [A, C].
C20_ArchiveOnlyFlags ==
    (Constructed /\ channel_data.given) =>
        /\ \A i \in 1..Len(metas) :
              metas[i].archived <=>
                  (metas[i].canonical_name \in channel_data.packages)
        /\ \A r \in Listed(directory) :
              canonical_name(r) \in channel_data.packages =>
                  \E i \in 1..Len(metas) :
                      metas[i].recipe_dirname = r.dirname /\ metas[i].archived
        /\ (Returned /\ directory = DirABC /\ Listed(directory) = directory
              /\ max_passes = DefaultMaxPasses) =>
                  /\ print(metas) = <<"A", "B", "C">>
                  /\ print_culled(entry, metas) = <<"A", "C">>

\* the names of ds that satisfy OtherComplete for the record at i, in the
\* order of ds
RECURSIVE PeersAmongOthers(_, _, _)
PeersAmongOthers(ms, i, ds) ==
    IF ds = <<>> THEN <<>>
    ELSE (IF \E j \in 1..Len(ms) :
                j # i /\ ms[j].complete /\ ms[j].name = Head(ds)
          THEN <<Head(ds)>> ELSE <<>>)
         \o PeersAmongOthers(ms, i, Tail(ds))

\* C21: for every complete record r, peer_bdeps(r) is the sequence, in the
\* order of the build requirements, of the bare dependency names of r that
\* are the name of some other complete record; a name that matches only r
\* itself, only an incomplete record, or no record is not a peer
\* dependency.
C21_PeersAreOtherCompleteRecords ==
    Constructed =>
        \A i \in 1..Len(metas) :
            metas[i].complete =>
                metas[i].peer_bdeps = PeersAmongOthers(metas, i, metas[i].deps)

\* C22: before the first pass the complete records are sorted by number
\* of peer dependencies ascending and, among equal counts, by name
\* ascending; the incomplete records, sorted alphabetically by name, are
\* placed ahead of them.
C22_InitialOrder ==
    (entry = "package" /\ pc \in {"constructed", "while"} /\ opass = 0) =>
        LET k == Len(incomplete_metas)
        IN  /\ \A i \in 1..Len(metas) : metas[i].complete <=> (i > k)
            /\ \A i \in 1..(k - 1) :
                  Rank(metas[i].name) <= Rank(metas[i + 1].name)
            /\ \A i \in (k + 1)..(Len(metas) - 1) :
                  \/ Len(metas[i].peer_bdeps) < Len(metas[i + 1].peer_bdeps)
                  \/ /\ Len(metas[i].peer_bdeps) = Len(metas[i + 1].peer_bdeps)
                     /\ Rank(metas[i].name) <= Rank(metas[i + 1].name)

C22_Witness ==
    /\ entry = "package" /\ pc = "constructed"
    /\ \E i \in 1..Len(metas) : ~metas[i].complete
    /\ \E i, j \in 1..Len(metas) :
          /\ i < j /\ metas[i].complete
          /\ Len(metas[i].peer_bdeps) = Len(metas[j].peer_bdeps)
          /\ Rank(metas[i].recipe_dirname) > Rank(metas[j].recipe_dirname)

\* C23: position_OK(r) is True exactly when every name d of the peer list
\* of r satisfies index(d) < index(r); it is True for a record without
\* peer dependencies.
C23_PositionOKIffAllEarlier ==
    Constructed =>
        \A i \in 1..Len(metas) :
            position_OK(metas, metas[i].name) <=>
                \A k \in 1..Len(metas[i].peer_bdeps) :
                    index(metas, metas[i].peer_bdeps[k]) < index(metas, metas[i].name)

\* the records of ms other than the one named r, in the order of ms
RECURSIVE Others(_, _)
Others(ms, r) ==
    IF ms = <<>> THEN <<>>
    ELSE (IF Head(ms).name = r THEN <<>> ELSE <<Head(ms)>>) \o Others(Tail(ms), r)

\* `after` is `before` with the record named r moved to the slot right
\* behind the peer dependency of r that had the largest index
SingleMove(before, after, r) ==
    LET d == before[max(peer_bdep_indices(before, r))].name
    IN  /\ index(after, r) = index(after, d) + 1
        /\ position_OK(after, r)
        /\ Others(after, r) = Others(before, r)
        /\ Len(after) = Len(before)

\* C24: relocate(r) on a record that fails position_OK is a single move:
\* afterwards r sits immediately after the peer dependency that had the
\* largest index, position_OK(r) holds, and all other records keep their
\* relative order.
C24_RelocateIsSingleMove ==
    [][ /\ (pc = "for" /\ it <= Len(metas)
             /\ ~position_OK(metas, metas[it].name))
            => SingleMove(metas, metas', metas[it].name)
        /\ (pc = "returned" /\ pc' = "called" /\ raised' = "None")
            => SingleMove(metas, metas', called')
      ]_vars

C24_Witness ==
    /\ pc = "for" /\ nreloc > 0 /\ Len(metas) >= 3
    /\ \E i \in 2..(Len(metas) - 1) :
          /\ pass_start[1].name = metas[i].name
          /\ InList(metas[i - 1].name, metas[i].peer_bdeps)

\* C25: one pass examines every record of the sequence in its current
\* order: when the loop of optimize_build_order ends, each record has been
\* tested with position_OK at least once during the pass.
C25_PassTestsEveryRecord ==
    (pc = "for" /\ it > Len(metas)) =>
        \A i \in 1..Len(metas) : metas[i].name \in tested

\* what relocations have to leave alone in a record
Identity(m) ==
    [name |-> m.name, peer_bdeps |-> m.peer_bdeps,
     active |-> m.active, archived |-> m.archived]

\* C26: relocations and passes change positions only: no step taken after
\* the construction (a relocation, an iteration of a pass, the bookkeeping
\* of multipass_optimize) changes the name, the peer dependency list, the
\* active flag or the archived flag of any record, adds a record or drops
\* one.
C26_OnlyPositionsChange ==
    [][ Constructed =>
          /\ Len(metas') = Len(metas)
          /\ \A i \in 1..Len(metas) :
                Cardinality({j \in 1..Len(metas) :
                                Identity(metas[j]) = Identity(metas[i])})
                = Cardinality({j \in 1..Len(metas') :
                                Identity(metas'[j]) = Identity(metas[i])})
      ]_vars

C26_Witness ==
    /\ pc = "for" /\ nreloc > 0
    /\ \E i \in 1..Len(metas) :
          /\ metas[i].archived
          /\ metas[i].peer_bdeps # <<>>
          /\ pass_start[i].name # metas[i].name
          /\ \A j \in 1..(i - 1) : pass_start[j].name # metas[i].name

\* progress of multipass_optimize: passes begun, then iterations done
Measure ==
    IF pc = "for" THEN opass * (Len(metas) + 2) + it
    ELSE (opass + 1) * (Len(metas) + 2)

\* C27: for every working set with unique names, cyclic or not, each pass
\* performs exactly len(sequence) iterations of its loop although the
\* sequence is mutated while it is iterated, and multipass_optimize returns
\* after at least one and at most max_passes passes: every step of
\* multipass_optimize increases a bounded measure, the loop of a pass ends
\* after len(sequence) iterations, and the number of passes at the return
\* is in 1..max_passes.
C27_Termination ==
    [][ /\ pc \in {"while", "for"} =>
              /\ pc' \in {"while", "for"} => Measure' > Measure
              /\ Measure <= (max_passes + 1) * (Len(metas) + 2)
              /\ max_passes >= 1
        /\ (pc = "for" /\ pc' = "while") =>
              /\ it - 1 = Len(pass_start)
              /\ Len(metas) = Len(pass_start)
        /\ (pc = "while" /\ pc' = "for") => opass' <= max_passes
        /\ (pc = "while" /\ pc' = "returned") =>
              /\ 1 <= opass /\ opass <= max_passes
      ]_vars

C27_Witness ==
    /\ pc = "returned" /\ ret = "False"
    /\ opass = DefaultMaxPasses /\ max_passes = DefaultMaxPasses
    /\ nreloc > 0 /\ UniqueNames(metas)

\* C28: within a pass only violating records move, and only toward the
\* end: an iteration changes the sequence only if the largest peer
\* dependency index of the visited record exceeds the index of the record,
\* and then the index of that record strictly increases while no other
\* record moves toward the end; a record that satisfies position_OK when
\* visited, and any record with an empty peer dependency list, is not
\* relocated.
C28_OnlyViolatorsMoveBack ==
    [][ (pc = "for" /\ it <= Len(metas)) =>
          LET r == metas[it].name
          IN  /\ metas' # metas =>
                    /\ max(peer_bdep_indices(metas, r)) > index(metas, r)
                    /\ index(metas', r) > index(metas, r)
              /\ position_OK(metas, r) => metas' = metas
              /\ metas[it].peer_bdeps = <<>> => metas' = metas
              /\ \A i \in 1..Len(metas) :
                    (metas[i].name # r \/ metas[i].peer_bdeps = <<>>) =>
                        index(metas', metas[i].name) <= i
      ]_vars

C28_Witness ==
    /\ pc = "for" /\ it > Len(metas) /\ nreloc = 1
    /\ Cardinality(tested) >= 2
    /\ \E i \in 1..Len(metas) :
          metas[i].peer_bdeps = <<>> /\ metas[i].name \in tested
    /\ \E i \in 1..Len(metas) :
          /\ metas[i].peer_bdeps # <<>> /\ metas[i].name \in tested
          /\ index(pass_start, metas[i].name) >= i

\* C29: although incomplete records are left out of the peer dependency
\* computation, no precedence is lost: in every reachable state a complete
\* record whose build dependencies name an incomplete record of the
\* sequence is positioned after that incomplete record.
C29_IncompleteDependencyFirst ==
    \A i, j \in 1..Len(metas) :
        (/\ metas[i].complete
         /\ ~metas[j].complete
         /\ InList(metas[j].name, metas[i].deps)) => j < i

C29_Witness ==
    /\ pc = "for" /\ nreloc > 0
    /\ \E i, j \in 1..Len(metas) :
          /\ metas[i].complete
          /\ ~metas[j].complete
          /\ InList(metas[j].name, metas[i].deps)
          /\ ~InList(metas[j].name, metas[i].peer_bdeps)
          /\ index(pass_start, metas[i].name) < i

\* C30: after the ordering the command line run completes by emitting the
\* package list in exactly one mode: without --details, the culled list if
\* --culled is given and otherwise the full list of names in the order of
\* the sequence, and no exception ends the run.
C30_RunEmitsList ==
    pc = "done" =>
        /\ raised = "None"
        /\ output = IF culled THEN print_culled(entry, metas) ELSE print(metas)

====
